---- MODULE Spec2Model ----
(***************************************************************************)
(* Model of the folder evaluator of eval-ai-code                           *)
(* (services/CodeEvaluatorService.py, class AICodeEvaluator):              *)
(*   get_code_files          file selection                                *)
(*   evaluate_file           one oracle call and the parsing of its reply  *)
(*   evaluate_folder         the semaphore-bounded fan-out and collection  *)
(*   calculate_overall_score the aggregation                               *)
(* Python strings are sequences of one-character strings, so that          *)
(* slicing, stripping, prefixes and suffixes are computed, not assumed.    *)
(***************************************************************************)
EXTENDS Integers, Sequences, FiniteSets, TLC

VARIABLES
    folder_path,        \* get_code_files: the root, as the caller spelled it (its parts)
    tree,               \* the entries of the file system below the root
    exclude_extensions, \* caller's extension exclusions (a set of strings)
    exclude_folders,    \* caller's folder exclusions (a set of strings)
    code_files,         \* evaluate_folder: the list get_code_files returned
    oracle,             \* what the oracle does with each file's request
    pc,                 \* position of each evaluate_with_semaphore task
    requests,           \* the file content each task has sent to the oracle
    sem,                \* asyncio.Semaphore._value
    done_queue,         \* as_completed's queue of finished tasks, oldest first
    file_evaluations,   \* evaluate_folder's local list
    bar,                \* the progress bar's position
    main,               \* position of the coordinating coroutine
    overall             \* the OverallEvaluation returned, or NoValue

vars == <<folder_path, tree, exclude_extensions, exclude_folders, code_files,
          oracle, pc, requests, sem, done_queue, file_evaluations, bar, main, overall>>

NoValue == [t |-> "none"]

Min(a, b) == IF a < b THEN a ELSE b
Max(a, b) == IF a > b THEN a ELSE b

\* Python evaluates an expression once, when it binds its value to a name or a
\* parameter: the value of body taken at the value of e is written
\* TheValue({ body : x \in {e} })
TheValue(S) == CHOOSE r \in S : TRUE

(***************************************************************************)
(* Python str operations                                                   *)
(***************************************************************************)
WHITESPACE == {" ", "\t", "\n", "\r"}

ALPHABET == <<"a","b","c","d","e","f","g","h","i","j","k","l","m","n","o","p","q","r","s","t","u","v","w","x","y","z">>

\* s[:k]
Take(s, k) == SubSeq(s, 1, Min(k, Len(s)))

\* s[k:] with a 1-based first index
From(s, k) == SubSeq(s, k, Len(s))

RECURSIVE LStrip(_)
LStrip(s) == IF s # <<>> /\ Head(s) \in WHITESPACE THEN LStrip(Tail(s)) ELSE s

RECURSIVE RStrip(_)
RStrip(s) ==
    IF s # <<>> /\ s[Len(s)] \in WHITESPACE THEN RStrip(SubSeq(s, 1, Len(s) - 1)) ELSE s

\* str.strip()
Strip(s) == RStrip(LStrip(s))

\* s.startswith(p)
StartsWith(s, p) == Len(p) <= Len(s) /\ SubSeq(s, 1, Len(p)) = p

\* s[i:].startswith(p), i 1-based
StartsWithAt(s, i, p) == i + Len(p) - 1 <= Len(s) /\ SubSeq(s, i, i + Len(p) - 1) = p

\* p in s
Contains(s, p) == \E i \in 1..(Len(s) - Len(p) + 1) : StartsWithAt(s, i, p)

(***************************************************************************)
(* JSON values as json.loads builds them, and Python's int()               *)
(***************************************************************************)
JInt(n) == [t |-> "int", n |-> n]
\* a float literal: sign, integer part and the digits after the point
JFloat(sign, ip, frac) == [t |-> "float", sign |-> sign, ip |-> ip, frac |-> frac]
JStr(s) == [t |-> "str", s |-> s]
JBool(b) == [t |-> "bool", b |-> b]
JList(items) == [t |-> "list", items |-> items]
JObj(m) == [t |-> "dict", m |-> m]
JNull == [t |-> "null"]
JNaN == [t |-> "nan"]

DIGITS == {"0", "1", "2", "3", "4", "5", "6", "7", "8", "9"}
DigitVal(c) ==
    CASE c = "0" -> 0 [] c = "1" -> 1 [] c = "2" -> 2 [] c = "3" -> 3 [] c = "4" -> 4
      [] c = "5" -> 5 [] c = "6" -> 6 [] c = "7" -> 7 [] c = "8" -> 8 [] c = "9" -> 9

RECURSIVE DigitsToNat(_)
DigitsToNat(ds) ==
    IF ds = <<>> THEN 0
    ELSE 10 * DigitsToNat(SubSeq(ds, 1, Len(ds) - 1)) + DigitVal(ds[Len(ds)])

\* index after the longest run of digits starting at i
RECURSIVE DigitsEnd(_, _)
DigitsEnd(s, i) == IF i <= Len(s) /\ s[i] \in DIGITS THEN DigitsEnd(s, i + 1) ELSE i

\* json.decoder WHITESPACE.match(s, i).end()
RECURSIVE SkipWs(_, _)
SkipWs(s, i) == IF i <= Len(s) /\ s[i] \in WHITESPACE THEN SkipWs(s, i + 1) ELSE i

ParseFail == [ok |-> FALSE, v |-> JNull, i |-> 0]
ParseOk(v, i) == [ok |-> TRUE, v |-> v, i |-> i]

\* index of the closing quote of a string whose body starts at i, 0 when unterminated
\* (escape sequences are outside the modelled subset of JSON)
QuoteEnd(s, i) ==
    LET quotes == { j \in i..Len(s) : s[j] = "\"" }
    IN  IF quotes = {} THEN 0 ELSE CHOOSE j \in quotes : \A k \in quotes : j <= k

ParseString(s, i) ==
    LET j == QuoteEnd(s, i + 1)
    IN  IF j = 0 THEN ParseFail ELSE ParseOk(JStr(SubSeq(s, i + 1, j - 1)), j + 1)

\* -?(0|[1-9][0-9]*)(\.[0-9]+)?   (exponents are outside the modelled subset)
ParseNumber(s, i) ==
    LET neg == s[i] = "-"
        a == IF neg THEN i + 1 ELSE i
        b == IF a <= Len(s) /\ s[a] = "0" THEN a + 1 ELSE DigitsEnd(s, a)
        hasFrac == b <= Len(s) /\ s[b] = "." /\ DigitsEnd(s, b + 1) > b + 1
        c == DigitsEnd(s, b + 1)
        ip == DigitsToNat(SubSeq(s, a, b - 1))
    IN  IF b = a THEN ParseFail
        ELSE IF hasFrac
             THEN ParseOk(JFloat(IF neg THEN -1 ELSE 1, ip, SubSeq(s, b + 1, c - 1)), c)
             ELSE ParseOk(JInt(IF neg THEN -ip ELSE ip), b)

LIT_NULL == <<"n","u","l","l">>
LIT_TRUE == <<"t","r","u","e">>
LIT_FALSE == <<"f","a","l","s","e">>
LIT_NAN == <<"N","a","N">>

RECURSIVE ParseValue(_, _)
RECURSIVE ParseMembers(_, _, _)
RECURSIVE ParseElements(_, _, _)

\* JSONObject after the first key's opening quote was seen at i; m is the dict so far
\* (a repeated key keeps its last value)
ParseMembers(text, at, dict) ==
    LET Members(s, i, m) ==
            LET AfterKey(k) ==
                    LET c == SkipWs(s, k.i)
                        AfterValue(v) ==
                            LET e == SkipWs(s, v.i)
                                m2 == [x \in DOMAIN m \cup {k.v.s} |->
                                          IF x = k.v.s THEN v.v ELSE m[x]]
                                n == SkipWs(s, e + 1)
                            IN  IF ~v.ok \/ e > Len(s) THEN ParseFail
                                ELSE IF s[e] = "}" THEN ParseOk(JObj(m2), e + 1)
                                ELSE IF s[e] = "," /\ n <= Len(s) /\ s[n] = "\""
                                     THEN ParseMembers(s, n, m2)
                                ELSE ParseFail
                    IN  IF ~k.ok \/ c > Len(s) \/ s[c] # ":" THEN ParseFail
                        ELSE TheValue({ AfterValue(x) : x \in {ParseValue(s, SkipWs(s, c + 1))} })
            IN  TheValue({ AfterKey(x) : x \in {ParseString(s, i)} })
    IN  TheValue({ Members(x[1], x[2], x[3]) : x \in {<<text, at, dict>>} })

\* JSONArray with its next element at i; items is the list so far
ParseElements(text, at, list) ==
    LET Elements(s, i, items) ==
            LET AfterValue(v) ==
                    LET e == SkipWs(s, v.i)
                    IN  IF ~v.ok \/ e > Len(s) THEN ParseFail
                        ELSE IF s[e] = "]" THEN ParseOk(JList(Append(items, v.v)), e + 1)
                        ELSE IF s[e] = ","
                             THEN ParseElements(s, SkipWs(s, e + 1), Append(items, v.v))
                        ELSE ParseFail
            IN  TheValue({ AfterValue(x) : x \in {ParseValue(s, i)} })
    IN  TheValue({ Elements(x[1], x[2], x[3]) : x \in {<<text, at, list>>} })

\* json.scanner: one value starting at i
ParseValue(text, at) ==
    LET ValueAt(s, i) ==
            IF i > Len(s) THEN ParseFail
            ELSE IF s[i] = "\"" THEN ParseString(s, i)
            ELSE IF s[i] = "{" THEN
                LET j == SkipWs(s, i + 1)
                IN  IF j > Len(s) THEN ParseFail
                    ELSE IF s[j] = "}" THEN ParseOk(JObj(<<>>), j + 1)
                    ELSE IF s[j] = "\"" THEN ParseMembers(s, j, <<>>)
                    ELSE ParseFail
            ELSE IF s[i] = "[" THEN
                LET j == SkipWs(s, i + 1)
                IN  IF j > Len(s) THEN ParseFail
                    ELSE IF s[j] = "]" THEN ParseOk(JList(<<>>), j + 1)
                    ELSE ParseElements(s, j, <<>>)
            ELSE IF StartsWithAt(s, i, LIT_NULL) THEN ParseOk(JNull, i + 4)
            ELSE IF StartsWithAt(s, i, LIT_TRUE) THEN ParseOk(JBool(TRUE), i + 4)
            ELSE IF StartsWithAt(s, i, LIT_FALSE) THEN ParseOk(JBool(FALSE), i + 5)
            ELSE IF StartsWithAt(s, i, LIT_NAN) THEN ParseOk(JNaN, i + 3)
            ELSE IF s[i] = "-" \/ s[i] \in DIGITS THEN ParseNumber(s, i)
            ELSE ParseFail
    IN  TheValue({ ValueAt(x[1], x[2]) : x \in {<<text, at>>} })

\* json.loads(s): [err |-> TRUE] stands for JSONDecodeError
json_loads(s) ==
    LET Whole(r) ==
            IF r.ok /\ SkipWs(s, r.i) = Len(s) + 1
            THEN [err |-> FALSE, v |-> r.v]
            ELSE [err |-> TRUE, v |-> JNull]
    IN  TheValue({ Whole(x) : x \in {ParseValue(s, SkipWs(s, 1))} })

\* dict.get(key, default)
dict_get(d, key, default) == IF key \in DOMAIN d.m THEN d.m[key] ELSE default

\* messages of the exceptions Python raises inside evaluate_file stand as the
\* exception's class name
MSG_ATTRIBUTE_ERROR == <<"A","t","t","r","i","b","u","t","e","E","r","r","o","r">>
MSG_VALUE_ERROR == <<"V","a","l","u","e","E","r","r","o","r">>
MSG_TYPE_ERROR == <<"T","y","p","e","E","r","r","o","r">>

Raised(msg) == [raised |-> TRUE, n |-> 0, msg |-> msg]
Returned(n) == [raised |-> FALSE, n |-> n, msg |-> <<>>]

\* int(str): surrounding whitespace and one sign allowed, then digits only
IntOfStr(s) ==
    LET u == Strip(s)
        signed == u # <<>> /\ u[1] \in {"-", "+"}
        ds == IF signed THEN Tail(u) ELSE u
    IN  IF ds # <<>> /\ \A k \in 1..Len(ds) : ds[k] \in DIGITS
        THEN Returned(IF signed /\ u[1] = "-" THEN -DigitsToNat(ds) ELSE DigitsToNat(ds))
        ELSE Raised(MSG_VALUE_ERROR)

\* int(x) for a decoded JSON value x
py_int(x) ==
    CASE x.t = "int" -> Returned(x.n)
      [] x.t = "float" -> Returned(x.sign * x.ip)        \* truncation towards zero
      [] x.t = "bool" -> Returned(IF x.b THEN 1 ELSE 0)
      [] x.t = "str" -> IntOfStr(x.s)
      [] x.t = "nan" -> Raised(MSG_VALUE_ERROR)
      [] OTHER -> Raised(MSG_TYPE_ERROR)                 \* None, list, dict

(***************************************************************************)
(* pathlib: a path is the sequence of its parts, each part a string        *)
(***************************************************************************)
RECURSIVE LastDot(_, _)
\* str.rfind('.') as a 1-based index below or at i, 0 when there is none
LastDot(name, i) == IF i = 0 THEN 0 ELSE IF name[i] = "." THEN i ELSE LastDot(name, i - 1)

\* PurePath.suffix: the last dot and what follows, unless the dot leads or ends the name
Suffix(file_path) ==
    LET name == IF file_path = <<>> THEN <<>> ELSE file_path[Len(file_path)]
        i == LastDot(name, Len(name))
    IN  IF 1 < i /\ i < Len(name) THEN From(name, i) ELSE <<>>

\* PurePath.relative_to(base): the parts after base ([raised |-> TRUE] is ValueError)
relative_to(file_path, base_path) ==
    IF StartsWith(file_path, base_path)
    THEN [raised |-> FALSE, parts |-> From(file_path, Len(base_path) + 1)]
    ELSE [raised |-> TRUE, parts |-> <<>>]

RECURSIVE PathStr(_)
\* str(path): the parts joined by "/"
PathStr(parts) ==
    IF parts = <<>> THEN <<".">>
    ELSE IF Len(parts) = 1 THEN parts[1]
    ELSE parts[1] \o <<"/">> \o PathStr(Tail(parts))

(***************************************************************************)
(* get_code_files                                                          *)
(***************************************************************************)
CODE_EXTENSIONS ==
    { <<".","p","y">>, <<".","j","s">>, <<".","t","s">>, <<".","j","s","x">>,
      <<".","t","s","x">>, <<".","j","a","v","a">>, <<".","c","p","p">>, <<".","c">>,
      <<".","c","s">>, <<".","g","o">>, <<".","r","s">>, <<".","p","h","p">>,
      <<".","r","b">>, <<".","s","w","i","f","t">>, <<".","k","t">>,
      <<".","s","c","a","l","a">>, <<".","s","h">>, <<".","p","s","1">>,
      <<".","s","q","l">>, <<".","h","t","m","l">>, <<".","c","s","s">>,
      <<".","v","u","e">>, <<".","d","a","r","t">>, <<".","r">>, <<".","m">> }

DEFAULT_EXCLUSIONS ==
    { <<".","g","i","t">>, <<"n","o","d","e","_","m","o","d","u","l","e","s">>,
      <<"_","_","p","y","c","a","c","h","e","_","_">>, <<"v","e","n","v">>,
      <<"e","n","v">>, <<".","v","e","n","v">> }

UPPER == <<"A","B","C","D","E","F","G","H","I","J","K","L","M","N","O","P","Q","R","S","T","U","V","W","X","Y","Z">>
\* str.lower() on ASCII letters
LowerChar(c) ==
    IF \E i \in 1..26 : UPPER[i] = c
    THEN ALPHABET[CHOOSE i \in 1..26 : UPPER[i] = c]
    ELSE c
Lower(str) == [i \in 1..Len(str) |-> LowerChar(str[i])]

\* file_path.parent
Parent(file_path) == SubSeq(file_path, 1, Len(file_path) - 1)

is_code_file(file_path, excl_extensions) ==
    IF excl_extensions # {} /\ Lower(Suffix(file_path)) \in excl_extensions
    THEN FALSE
    ELSE Lower(Suffix(file_path)) \in CODE_EXTENSIONS

should_exclude_folder(dir_path, excl_folders) ==
    excl_folders # {} /\ \E k \in 1..Len(dir_path) : dir_path[k] \in excl_folders

\* any(part.startswith('.') or part in all_excluded_folders for part in file_path.parts):
\* file_path is the root as the caller spelled it joined with the path below it, so
\* the root's own parts are among those tested
InExcludedDirectory(file_path, root, all_excluded_folders) ==
    \E k \in 1..Len(file_path) :
        StartsWith(file_path[k], <<".">>) \/ file_path[k] \in all_excluded_folders

\* the test of one entry that folder_path.rglob('*') yields
IsSelected(entry, root, excl_extensions, excl_folders) ==
    LET file_path == root \o entry.rel
    IN  /\ ~InExcludedDirectory(file_path, root, DEFAULT_EXCLUSIONS \cup excl_folders)
        /\ ~should_exclude_folder(Parent(file_path), excl_folders)
        /\ entry.is_file
        /\ is_code_file(file_path, excl_extensions)
        /\ entry.size > 0

\* entries is what rglob yields, in its order; the result keeps that order
get_code_files(root, entries, excl_extensions, excl_folders) ==
    LET Keep(entry) == IsSelected(entry, root, excl_extensions, excl_folders)
        kept == SelectSeq(entries, Keep)
    IN  [i \in 1..Len(kept) |-> root \o kept[i].rel]

(***************************************************************************)
(* evaluate_file                                                           *)
(***************************************************************************)
PARSE_FAIL_PREFIX == <<"U","n","a","b","l","e"," ","t","o"," ","p","a","r","s","e"," ","A","I"," ","r","e","s","p","o","n","s","e",":"," ">>
ERROR_PREFIX == <<"E","r","r","o","r"," ","d","u","r","i","n","g"," ","e","v","a","l","u","a","t","i","o","n",":"," ">>
NO_REASON == <<"N","o"," ","r","e","a","s","o","n"," ","p","r","o","v","i","d","e","d">>
KEY_SCORE == <<"s","c","o","r","e">>
KEY_REASON == <<"r","e","a","s","o","n">>

\* result_text[:200]
PREFIX_LIMIT == 200
FileEvaluation(filename, score, reason, file_type) ==
    [filename |-> filename, score |-> score, reason |-> reason, file_type |-> file_type]

\* what a coroutine ends with: a value, or an exception propagating to its awaiter
Value(v) == [raised |-> FALSE, value |-> v, msg |-> <<>>]
Raise(msg) == [raised |-> TRUE, value |-> NoValue, msg |-> msg]

\* mutant of ClampScore: the upper bound is lost
ClampScoreNoCeiling(n) == Max(1, n)

\* mutant of ClampScore: the lower bound is lost
ClampScoreNoFloor(n) == Min(10, n)

\* max(1, min(10, n))
ClampScore(n) == Max(1, Min(10, n))

\* mutant of ParseFallback: the reply is not cut at PREFIX_LIMIT
ParseFallbackWhole(file_path, filename, result_text) ==
    Value(FileEvaluation(filename, 5, JStr(PARSE_FAIL_PREFIX \o result_text),
                         Suffix(file_path)))

\* except json.JSONDecodeError: score and reason
ParseFallback(file_path, filename, result_text) ==
    Value(FileEvaluation(filename, 5,
                         JStr(PARSE_FAIL_PREFIX \o Take(result_text, PREFIX_LIMIT)),
                         Suffix(file_path)))

\* mutant of ExceptFallback: the failure is passed on to the awaiter
ExceptRethrow(file_path, filename, msg) == Raise(msg)

\* except Exception as e: the FileEvaluation returned in place of the failure
ExceptFallback(file_path, filename, msg) ==
    Value(FileEvaluation(filename, 5, JStr(ERROR_PREFIX \o msg),
                         Suffix(file_path)))

\* the inner try block on a decoded reply
ScoreAndReason(file_path, filename, result) ==
    IF result.t # "dict" THEN ExceptFallback(file_path, filename, MSG_ATTRIBUTE_ERROR)
    ELSE LET n == py_int(dict_get(result, KEY_SCORE, JInt(5)))
         IN  IF n.raised THEN ExceptFallback(file_path, filename, n.msg)
             ELSE Value(FileEvaluation(filename, ClampScore(n.n),
                                       dict_get(result, KEY_REASON, JStr(NO_REASON)),
                                       Suffix(file_path)))

\* evaluate_file from the point where the oracle call ends with `response`:
\*   [kind |-> "raise", msg]       the call raised
\*   [kind |-> "none"]             message.content is None
\*   [kind |-> "content", content] message.content is a string
\* Every path builds the FileEvaluation with file_path.relative_to(base_path); were
\* that to raise, it would raise again inside the handler and leave evaluate_file.
evaluate_file(file_path, base_path, response) ==
    LET rel == relative_to(file_path, base_path)
        filename == PathStr(rel.parts)
    IN  IF rel.raised THEN Raise(MSG_VALUE_ERROR)
        ELSE IF response.kind = "raise"
        THEN ExceptFallback(file_path, filename, response.msg)
        ELSE IF response.kind = "none"
        THEN ExceptFallback(file_path, filename, MSG_ATTRIBUTE_ERROR)
        ELSE LET Loads(result_text) ==
                     LET Loaded(loaded) ==
                             IF loaded.err
                             THEN ParseFallback(file_path, filename, result_text)
                             ELSE ScoreAndReason(file_path, filename, loaded.v)
                     IN  TheValue({ Loaded(x) : x \in {json_loads(result_text)} })
             IN  TheValue({ Loads(x) : x \in {Strip(response.content)} })

RaiseResponse(msg) == [kind |-> "raise", msg |-> msg, content |-> <<>>]
NoneResponse == [kind |-> "none", msg |-> <<>>, content |-> <<>>]
ContentResponse(text) == [kind |-> "content", msg |-> <<>>, content |-> text]

(***************************************************************************)
(* calculate_overall_score                                                 *)
(***************************************************************************)
NO_FILES_REASON == <<"N","o"," ","c","o","d","e"," ","f","i","l","e","s"," ","f","o","u","n","d"," ","t","o"," ","e","v","a","l","u","a","t","e">>
MOST_FILES == <<"M","o","s","t"," ","f","i","l","e","s"," ","(">>
SHOW_AI == <<")"," ","s","h","o","w"," ","s","t","r","o","n","g"," ","i","n","d","i","c","a","t","o","r","s"," ","o","f"," ","A","I"," ","g","e","n","e","r","a","t","i","o","n">>
APPEAR_HUMAN == <<")"," ","a","p","p","e","a","r"," ","t","o"," ","b","e"," ","h","u","m","a","n","-","w","r","i","t","t","e","n">>
MIXED_RESULTS == <<"M","i","x","e","d"," ","r","e","s","u","l","t","s",":"," ">>
LIKELY_AI == <<" ","l","i","k","e","l","y"," ","A","I","-","g","e","n","e","r","a","t","e","d",","," ">>
UNCERTAIN == <<" ","u","n","c","e","r","t","a","i","n",","," ">>
LIKELY_HUMAN == <<" ","l","i","k","e","l","y"," ","h","u","m","a","n","-","w","r","i","t","t","e","n">>

DIGIT_CHARS == <<"0", "1", "2", "3", "4", "5", "6", "7", "8", "9">>
RECURSIVE NatStr(_)
\* str(n) of a natural number, as an f-string formats it
NatStr(n) == IF n < 10 THEN <<DIGIT_CHARS[n + 1]>> ELSE NatStr(n \div 10) \o <<DIGIT_CHARS[(n % 10) + 1]>>

OverallEvaluation(score, reason, total_files, evals) ==
    [score |-> score, reason |-> reason, total_files |-> total_files,
     file_evaluations |-> evals]

\* the result of the empty case, in calculate_overall_score and in evaluate_folder
NoFilesEvaluation == OverallEvaluation(1, NO_FILES_REASON, 0, <<>>)

RECURSIVE SumScores(_)
\* sum(eval.score for eval in file_evaluations)
SumScores(evals) == IF evals = <<>> THEN 0 ELSE Head(evals).score + SumScores(Tail(evals))

\* mutant of RoundedAverage: the quotient is cut instead of rounded
RoundedAverageCut(total, n) == total \div n

\* round(total / n) for total >= 0, n > 0: Python rounds a tie to the even neighbour.
\* (total / n is a double; for the sums and lengths of a run it is a tie exactly when
\* 2 * total is an odd multiple of n.)
RoundedAverage(total, n) ==
    LET q == total \div n
        r == total % n
    IN  IF 2 * r < n THEN q
        ELSE IF 2 * r > n THEN q + 1
        ELSE IF q % 2 = 0 THEN q ELSE q + 1

\* max(1, min(10, round(average_score)))
ClampOverall(n) == Max(1, Min(10, n))

\* mutant of IsMost: the comparison admits equality
IsMostOrEqual(count, n) == 5 * count >= 3 * n

\* count > n * 0.6. The double n * 0.6 equals 3n/5 exactly when 5 divides n and is no
\* integer otherwise, so the comparison with the integer count is that of 5*count
\* with 3*n.
IsMost(count, n) == 5 * count > 3 * n

\* the score bands of the reason
IsHighScore(score) == score >= 7
IsMediumScore(score) == 4 <= score /\ score <= 6
IsLowScore(score) == score <= 3

DistributionReason(evals) ==
    LET n == Len(evals)
        KeepHigh(eval) == IsHighScore(eval.score)
        KeepMedium(eval) == IsMediumScore(eval.score)
        KeepLow(eval) == IsLowScore(eval.score)
        high_scores == Len(SelectSeq(evals, KeepHigh))
        medium_scores == Len(SelectSeq(evals, KeepMedium))
        low_scores == Len(SelectSeq(evals, KeepLow))
    IN  IF IsMost(high_scores, n)
        THEN MOST_FILES \o NatStr(high_scores) \o <<"/">> \o NatStr(n) \o SHOW_AI
        ELSE IF IsMost(low_scores, n)
        THEN MOST_FILES \o NatStr(low_scores) \o <<"/">> \o NatStr(n) \o APPEAR_HUMAN
        ELSE MIXED_RESULTS \o NatStr(high_scores) \o LIKELY_AI
                           \o NatStr(medium_scores) \o UNCERTAIN
                           \o NatStr(low_scores) \o LIKELY_HUMAN

calculate_overall_score(evals) ==
    IF evals = <<>> THEN NoFilesEvaluation
    ELSE OverallEvaluation(ClampOverall(RoundedAverage(SumScores(evals), Len(evals))),
                           DistributionReason(evals), Len(evals), evals)

(***************************************************************************)
(* Oracle replies drawn on by the specifications                           *)
(***************************************************************************)
\* how far beyond PREFIX_LIMIT the longest reply reaches
MaxExtraChars == 40

Filler(n) == [i \in 1..n |-> ALPHABET[((i - 1) % 26) + 1]]

\* the text of a score in a reply; <<>> leaves the member out
ScoreTokens ==
    { <<>>, <<"1","5">>, <<"-","3">>, <<"0">>, <<"1">>, <<"7">>, <<"1","0">>, <<"1","1">>,
      <<"7",".","9">>, <<"0",".","5">>, <<"-","0",".","5">>, <<"-","3",".","7">>,
      <<"1","0",".","5">>, <<"9",".","0">>,
      <<"\"","8","\"">>, <<"\"","h","i","g","h","\"">>,
      <<"t","r","u","e">>, <<"n","u","l","l">>, <<"N","a","N">>, <<"[","7","]">> }
ReasonTokens ==
    { <<>>, <<"\"","x","\"">>, <<"n","u","l","l">>,
      <<"\"">> \o Filler(PREFIX_LIMIT + MaxExtraChars) \o <<"\"">> }

Member(key, tok) == IF tok = <<>> THEN <<>> ELSE <<"\"">> \o key \o <<"\"", ":", " ">> \o tok
ObjectText(st, rt) ==
    <<"{">> \o Member(KEY_SCORE, st)
            \o (IF st # <<>> /\ rt # <<>> THEN <<",", " ">> ELSE <<>>)
            \o Member(KEY_REASON, rt) \o <<"}">>
ObjectTexts == { ObjectText(st, rt) : st \in ScoreTokens, rt \in ReasonTokens }

OtherTexts ==
    { <<>>, <<" ", "\n">>,
      <<"n","o","t"," ","j","s","o","n">>,
      <<"[","1",","," ","2","]">>, <<"7">>, <<"\"","l","i","k","e","l","y"," ","A","I","\"">>,
      <<"{","\"","s","c","o","r","e","\"",":"," ","7","}"," ","t","h","a","n","k","s">>,
      <<"{","\"","s","c","o","r","e","\"",":"," ","7",",","}">>,
      <<"{","\"","s","c","o","r","e","\"",":"," ","0","7","}">>,
      <<"{","\"","s","c","o","r","e","\"",":">>,
      <<"{","\"","s","c","o","r","e","\"",":","1",",","\"","s","c","o","r","e","\"",":","9","}">> }
    \cup { Filler(n) : n \in {PREFIX_LIMIT - 1, PREFIX_LIMIT, PREFIX_LIMIT + 1,
                              PREFIX_LIMIT + MaxExtraChars} }

\* each text as it is and wrapped in white space
Padded(texts) == texts \cup { <<" ", "\n">> \o x \o <<"\n", " ">> : x \in texts }

FAILURE_MESSAGES ==
    { <<"c","o","n","n","e","c","t","i","o","n"," ","t","i","m","e","d"," ","o","u","t">>,
      <<"4","0","1"," ","u","n","a","u","t","h","o","r","i","z","e","d">> }

OracleResponses ==
    { ContentResponse(x) : x \in Padded(ObjectTexts \cup OtherTexts) }
    \cup { RaiseResponse(m) : m \in FAILURE_MESSAGES } \cup { NoneResponse }

ROOT == << <<"p","r","o","j">> >>
SAMPLE_FILE == ROOT \o << <<"s","r","c">>, <<"m","a","i","n",".","p","y">> >>

(***************************************************************************)
(* SpecFile: evaluate_file applied to one file and every reply             *)
(***************************************************************************)
InitFile ==
    /\ folder_path = ROOT
    /\ tree = <<>>
    /\ exclude_extensions = {}
    /\ exclude_folders = {}
    /\ code_files = <<SAMPLE_FILE>>
    /\ oracle \in { <<r>> : r \in OracleResponses }
    /\ pc = <<>>
    /\ requests = <<>>
    /\ sem = 0
    /\ done_queue = <<>>
    /\ file_evaluations = <<>>
    /\ bar = 0
    /\ main = "file_input"
    /\ overall = NoValue

EvaluateOneFile ==
    /\ main = "file_input"
    /\ LET r == evaluate_file(code_files[1], folder_path, oracle[1])
       IN  /\ file_evaluations' = IF r.raised THEN <<>> ELSE <<r.value>>
           /\ main' = IF r.raised THEN "file_raised" ELSE "file_done"
    /\ UNCHANGED <<folder_path, tree, exclude_extensions, exclude_folders, code_files,
                   oracle, pc, requests, sem, done_queue, bar, overall>>

NextFile == EvaluateOneFile

SpecFile == InitFile /\ [][NextFile]_vars

(***************************************************************************)
(* Claims about evaluate_file (SpecFile)                                   *)
(***************************************************************************)
FileDone == main = "file_done"
Reply == oracle[1]
\* the reply as evaluate_file decodes it
ReplyText == Strip(Reply.content)
Decoded == json_loads(ReplyText)
IsNumber(x) == x.t \in {"int", "float"}
\* a JSON object whose score is a number
ExpectedShape ==
    /\ ~Decoded.err
    /\ Decoded.v.t = "dict"
    /\ KEY_SCORE \in DOMAIN Decoded.v.m
    /\ IsNumber(Decoded.v.m[KEY_SCORE])
\* the reason is the parse-failure indicator followed by a prefix of text, cut at limit
ReportsParseFailure(reason, text, limit) ==
    /\ reason.t = "str"
    /\ StartsWith(reason.s, PARSE_FAIL_PREFIX)
    /\ LET rest == From(reason.s, Len(PARSE_FAIL_PREFIX) + 1)
       IN  /\ Len(rest) <= limit
           /\ StartsWith(text, rest)
           /\ (Len(rest) = limit \/ rest = text)

\* C3 as claimed: every reply that is not of the expected shape gets score 5 and the
\* parse-failure reason with at most 200 characters of the reply.
C3_AnyOtherShapeReportsParseFailure ==
    (FileDone /\ Reply.kind = "content" /\ ~ExpectedShape)
        => /\ file_evaluations[1].score = 5
           /\ ReportsParseFailure(file_evaluations[1].reason, ReplyText, 200)

\* C3 as amended: a reply that is not valid JSON once stripped of surrounding white
\* space gets score 5 and the reason "Unable to parse AI response: " followed by the
\* first 200 characters of the stripped reply.
C3_InvalidJsonReportsParseFailure ==
    (FileDone /\ Reply.kind = "content" /\ Decoded.err)
        => /\ file_evaluations[1].score = 5
           /\ ReportsParseFailure(file_evaluations[1].reason, ReplyText, 200)

\* an invalid reply longer than 200 characters was evaluated and cut
C3_Witness ==
    /\ FileDone /\ Reply.kind = "content" /\ Decoded.err
    /\ Len(ReplyText) > 200
    /\ Len(file_evaluations[1].reason.s) = Len(PARSE_FAIL_PREFIX) + 200

FracIsZero(x) == \A i \in 1..Len(x.frac) : x.frac[i] = "0"
NumberAbove10(x) ==
    IF x.t = "int" THEN x.n > 10
    ELSE x.sign = 1 /\ (x.ip > 10 \/ (x.ip = 10 /\ ~FracIsZero(x)))
NumberBelow1(x) == IF x.t = "int" THEN x.n < 1 ELSE x.sign = -1 \/ x.ip = 0
NumberIs(x, k) == IF x.t = "int" THEN x.n = k ELSE FracIsZero(x) /\ x.sign * x.ip = k
\* the integer part of x: the integer k of x's sign with |k| <= |x| < |k| + 1
Truncated(x) == IF x.t = "int" THEN x.n ELSE x.sign * x.ip
ReasonOrPlaceholder ==
    IF KEY_REASON \in DOMAIN Decoded.v.m THEN Decoded.v.m[KEY_REASON] ELSE JStr(NO_REASON)

\* C4 as claimed: a numeric score s gives 10 when s > 10, 1 when s < 1 and s itself
\* otherwise; the reason is the reply's reason field or the placeholder.
C4_ScoreIsClampedNumber ==
    (FileDone /\ Reply.kind = "content" /\ ExpectedShape)
        => LET s == Decoded.v.m[KEY_SCORE]
               got == file_evaluations[1].score
           IN  /\ IF NumberAbove10(s) THEN got = 10
                  ELSE IF NumberBelow1(s) THEN got = 1
                  ELSE NumberIs(s, got)
               /\ file_evaluations[1].reason = ReasonOrPlaceholder

\* C4 as amended: a numeric score s gives its integer part (s truncated towards zero)
\* pulled to the nearest bound of [1,10]; the reason is the reply's reason field or
\* the placeholder.
C4_ScoreIsClampedIntegerPart ==
    (FileDone /\ Reply.kind = "content" /\ ExpectedShape)
        => LET k == Truncated(Decoded.v.m[KEY_SCORE])
           IN  /\ file_evaluations[1].score = IF k > 10 THEN 10 ELSE IF k < 1 THEN 1 ELSE k
               /\ file_evaluations[1].reason = ReasonOrPlaceholder

\* a reply with score 7.9 and no reason was evaluated to 7 and the placeholder
C4_Witness ==
    /\ FileDone /\ Reply.kind = "content" /\ ExpectedShape
    /\ Decoded.v.m[KEY_SCORE] = JFloat(1, 7, <<"9">>)
    /\ KEY_REASON \notin DOMAIN Decoded.v.m
    /\ file_evaluations[1].score = 7
    /\ file_evaluations[1].reason = JStr(NO_REASON)

(***************************************************************************)
(* SpecAgg: calculate_overall_score applied to every list of evaluations   *)
(* of up to MaxEvals files                                                 *)
(***************************************************************************)
MaxEvals == 5
\* the scores the lists are drawn from: the edges of the three bands and the extremes
AggScores == {1, 2, 3, 4, 6, 7, 9, 10}

SampleEvaluation(score) ==
    FileEvaluation(<<"s","r","c","/","m","a","i","n",".","p","y">>, score,
                   JStr(<<"x">>), <<".","p","y">>)

InitAgg ==
    /\ folder_path = ROOT
    /\ tree = <<>>
    /\ exclude_extensions = {}
    /\ exclude_folders = {}
    /\ code_files = <<>>
    /\ oracle = <<>>
    /\ pc = <<>>
    /\ requests = <<>>
    /\ sem = 0
    /\ done_queue = <<>>
    /\ \E n \in 0..MaxEvals : \E scores \in [1..n -> AggScores] :
           file_evaluations = [i \in 1..n |-> SampleEvaluation(scores[i])]
    /\ bar = 0
    /\ main = "agg_input"
    /\ overall = NoValue

Aggregate ==
    /\ main = "agg_input"
    /\ overall' = calculate_overall_score(file_evaluations)
    /\ main' = "agg_done"
    /\ UNCHANGED <<folder_path, tree, exclude_extensions, exclude_folders, code_files,
                   oracle, pc, requests, sem, done_queue, file_evaluations, bar>>

NextAgg == Aggregate

SpecAgg == InitAgg /\ [][NextAgg]_vars

(***************************************************************************)
(* Claims about calculate_overall_score (SpecAgg)                          *)
(***************************************************************************)
AggDone == main = "agg_done"
Scores == [i \in 1..Len(file_evaluations) |-> file_evaluations[i].score]
RECURSIVE Total(_)
Total(S) == IF S = {} THEN 0 ELSE LET i == CHOOSE i \in S : TRUE IN Scores[i] + Total(S \ {i})
Dist(a, b) == IF a >= b THEN a - b ELSE b - a

High == Cardinality({ i \in 1..Len(Scores) : Scores[i] >= 7 })
Medium == Cardinality({ i \in 1..Len(Scores) : Scores[i] >= 4 /\ Scores[i] <= 6 })
Low == Cardinality({ i \in 1..Len(Scores) : Scores[i] <= 3 })

\* C8: for a non-empty list the reason is the AI reason with high/total when
\* high > 0.6 * total, else the human-written reason with low/total when
\* low > 0.6 * total, else the mixed reason with the three counts.
C8_ReasonFollowsFirstMatchingRule ==
    (AggDone /\ Len(Scores) > 0) =>
        LET n == Len(Scores)
        IN  overall.reason =
              IF 10 * High > 6 * n
              THEN MOST_FILES \o NatStr(High) \o <<"/">> \o NatStr(n) \o SHOW_AI
              ELSE IF 10 * Low > 6 * n
              THEN MOST_FILES \o NatStr(Low) \o <<"/">> \o NatStr(n) \o APPEAR_HUMAN
              ELSE MIXED_RESULTS \o NatStr(High) \o LIKELY_AI \o NatStr(Medium)
                                 \o UNCERTAIN \o NatStr(Low) \o LIKELY_HUMAN

\* exactly 60% of five files scored high and the reason is the mixed one
C8_Witness ==
    /\ AggDone
    /\ Scores = <<9, 9, 9, 4, 2>>
    /\ StartsWith(overall.reason, MIXED_RESULTS)

(***************************************************************************)
(* SpecSel: get_code_files applied to file systems of up to MaxEntries     *)
(* chosen entries (and the directories above them), for several spellings  *)
(* of the root and several exclusion sets                                  *)
(***************************************************************************)
MaxEntries == 3

File(rel, size) ==
    [rel |-> rel, is_file |-> TRUE, size |-> size, readable |-> TRUE, text |-> <<"x">>]
Dir(rel) ==
    [rel |-> rel, is_file |-> FALSE, size |-> 0, readable |-> FALSE, text |-> <<>>]

N_SRC == <<"s","r","c">>
N_BUILD == <<"b","u","i","l","d">>
N_ENV == <<"e","n","v">>
N_NODE_MODULES == <<"n","o","d","e","_","m","o","d","u","l","e","s">>
N_GITHUB == <<".","g","i","t","h","u","b">>

\* the entries a tree is made of, in the order rglob yields them
CANDIDATES ==
    << File(<< <<"a",".","p","y">> >>, 10),
       File(<< <<"e","m","p","t","y",".","p","y">> >>, 0),
       File(<< <<"a",".","t","x","t">> >>, 10),
       File(<< <<".","e","n","v">> >>, 10),
       File(<< <<".","h","i","d","d","e","n",".","p","y">> >>, 10),
       Dir(<< <<"p","k","g",".","p","y">> >>),
       Dir(<< N_NODE_MODULES >>),
       File(<< N_NODE_MODULES, <<"x",".","j","s">> >>, 10),
       Dir(<< N_SRC >>),
       File(<< N_SRC, <<"M","a","i","n",".","P","Y">> >>, 10),
       File(<< N_SRC, <<"a","p","p",".","t","s">> >>, 10),
       Dir(<< N_BUILD >>),
       File(<< N_BUILD, <<"o","u","t",".","j","s">> >>, 10),
       Dir(<< N_ENV >>),
       File(<< N_ENV, <<"l","i","b",".","p","y">> >>, 10),
       Dir(<< N_GITHUB >>),
       File(<< N_GITHUB, <<"c","i",".","p","y">> >>, 10) >>

\* the chosen entries and the directories that hold them
Closure(S) ==
    S \cup { j \in 1..Len(CANDIDATES) :
               /\ ~CANDIDATES[j].is_file
               /\ \E i \in S : i # j /\ StartsWith(CANDIDATES[i].rel, CANDIDATES[j].rel) }

RECURSIVE Listing(_, _)
\* the entries of CANDIDATES with an index in S, from index i on, in order
Listing(S, i) ==
    IF i > Len(CANDIDATES) THEN <<>>
    ELSE (IF i \in S THEN <<CANDIDATES[i]>> ELSE <<>>) \o Listing(S, i + 1)

\* the root as a caller may spell it: ".", "proj", "../proj" and two absolute paths
ROOTS ==
    { <<>>, ROOT, << <<".", ".">>, <<"p","r","o","j">> >>,
      << <<"/">>, <<"s","r","v">>, <<"p","r","o","j">> >>,
      << <<"/">>, <<"h","o","m","e">>, N_ENV, <<"p","r","o","j">> >> }

EXTENSION_EXCLUSIONS ==
    { {}, { <<".","p","y">> }, { <<".","j","s">>, <<".","t","s">> }, { <<".","P","Y">> } }

FOLDER_EXCLUSIONS == { {}, { N_BUILD }, { N_SRC, N_BUILD } }

InitSel ==
    /\ folder_path \in ROOTS
    /\ \E S \in SUBSET (1..Len(CANDIDATES)) :
           /\ Cardinality(S) <= MaxEntries
           /\ tree = Listing(Closure(S), 1)
    /\ exclude_extensions \in EXTENSION_EXCLUSIONS
    /\ exclude_folders \in FOLDER_EXCLUSIONS
    /\ code_files = <<>>
    /\ oracle = <<>>
    /\ pc = <<>>
    /\ requests = <<>>
    /\ sem = 0
    /\ done_queue = <<>>
    /\ file_evaluations = <<>>
    /\ bar = 0
    /\ main = "select_input"
    /\ overall = NoValue

Select ==
    /\ main = "select_input"
    /\ code_files' = get_code_files(folder_path, tree, exclude_extensions, exclude_folders)
    /\ main' = "select_done"
    /\ UNCHANGED <<folder_path, tree, exclude_extensions, exclude_folders, oracle, pc,
                   requests, sem, done_queue, file_evaluations, bar, overall>>

NextSel == Select

SpecSel == InitSel /\ [][NextSel]_vars

(***************************************************************************)
(* Claims about get_code_files (SpecSel)                                   *)
(***************************************************************************)
SelectDone == main = "select_done"
SelectedFiles == { code_files[i] : i \in 1..Len(code_files) }
HiddenOrExcluded(part) ==
    part[1] = "." \/ part \in DEFAULT_EXCLUSIONS \cup exclude_folders
\* the four conditions on a file of the root's subtree, its path taken from the root
Eligible(entry) ==
    /\ entry.is_file /\ entry.size > 0
    /\ Lower(Suffix(entry.rel)) \in CODE_EXTENSIONS
    /\ Lower(Suffix(entry.rel)) \notin exclude_extensions
    /\ \A k \in 1..Len(entry.rel) : ~HiddenOrExcluded(entry.rel[k])

\* C9: for every root and every pair of exclusion sets, the files returned are
\* exactly the files of the root's subtree that meet the four conditions.
C9_ReturnsExactlyTheEligibleFiles ==
    SelectDone =>
        SelectedFiles = { folder_path \o tree[i].rel : i \in { j \in 1..Len(tree) : Eligible(tree[j]) } }

(***************************************************************************)
(* read_file_content                                                       *)
(***************************************************************************)
READ_ERROR_PREFIX == <<"E","r","r","o","r"," ","r","e","a","d","i","n","g"," ","f","i","l","e",":"," ">>
TRUNCATED_MARK == <<"\n",".",".","."," ","(","t","r","u","n","c","a","t","e","d",")">>
MSG_OS_ERROR == <<"O","S","E","r","r","o","r">>
\* len(content) > 8000
CONTENT_LIMIT == 8000

\* the content of a file, cut at CONTENT_LIMIT, or the sentinel of a failed read
read_file_content(entry) ==
    IF ~entry.readable THEN READ_ERROR_PREFIX \o MSG_OS_ERROR
    ELSE IF Len(entry.text) > CONTENT_LIMIT
    THEN Take(entry.text, CONTENT_LIMIT) \o TRUNCATED_MARK
    ELSE entry.text

(***************************************************************************)
(* evaluate_folder: the tasks, the semaphore and the collecting loop       *)
(***************************************************************************)
\* asyncio.Semaphore(5)
SEMAPHORE_LIMIT == 5

\* mutant of CanAcquire: the gate admits every task
CanAcquireAlways(value) == TRUE

\* Semaphore.acquire() returns at once when a permit is left, and waits otherwise
CanAcquire(value) == value > 0

\* mutant of SemaphoreExit: the permit is kept when the evaluation fell back to score 5
SemaphoreExitLeak(value, result) ==
    IF ~result.raised /\ result.value.score = 5 THEN value ELSE value + 1

\* async with semaphore, __aexit__: release(), whatever the body ended with
SemaphoreExit(value, result) == value + 1

\* mutant of CollectEvaluation: a fallback evaluation is not kept
CollectEvaluationSkipFallback(evals, evaluation) ==
    IF evaluation.score = 5 THEN evals ELSE Append(evals, evaluation)

\* mutant of CollectEvaluation: the evaluation is put in front of the list
CollectEvaluationInFront(evals, evaluation) == <<evaluation>> \o evals

\* file_evaluations.append(evaluation)
CollectEvaluation(evals, evaluation) == Append(evals, evaluation)

Tasks == DOMAIN pc
EntryOf(file_path) ==
    LET i == CHOOSE i \in 1..Len(tree) : folder_path \o tree[i].rel = file_path
    IN  tree[i]

\* evaluate_folder up to the first await of the collecting loop: the files are
\* selected; with none the result is returned at once, otherwise one coroutine per
\* file is made, the semaphore is created and as_completed schedules the wrappers
Scan ==
    /\ main = "start"
    /\ LET files == get_code_files(folder_path, tree, exclude_extensions, exclude_folders)
       IN  /\ code_files' = files
           /\ IF files = <<>>
              THEN /\ overall' = NoFilesEvaluation
                   /\ main' = "returned"
                   /\ UNCHANGED <<pc, requests, sem>>
              ELSE /\ pc' = [t \in 1..Len(files) |-> "created"]
                   /\ requests' = [t \in 1..Len(files) |-> <<>>]
                   /\ sem' = SEMAPHORE_LIMIT
                   /\ main' = "collect"
                   /\ UNCHANGED overall
    /\ UNCHANGED <<folder_path, tree, exclude_extensions, exclude_folders, oracle,
                   done_queue, file_evaluations, bar>>

\* a wrapper's first step, async with semaphore: it takes a permit and enters
\* evaluate_file (suspending in read_file_content), or waits at the gate
Start(t) ==
    /\ pc[t] = "created"
    /\ IF CanAcquire(sem)
       THEN sem' = sem - 1 /\ pc' = [pc EXCEPT ![t] = "reading"]
       ELSE sem' = sem /\ pc' = [pc EXCEPT ![t] = "waiting"]
    /\ UNCHANGED <<folder_path, tree, exclude_extensions, exclude_folders, code_files,
                   oracle, requests, done_queue, file_evaluations, bar, main, overall>>

\* a waiting wrapper is woken by a release and takes the permit
Wake(t) ==
    /\ pc[t] = "waiting"
    /\ CanAcquire(sem)
    /\ sem' = sem - 1
    /\ pc' = [pc EXCEPT ![t] = "reading"]
    /\ UNCHANGED <<folder_path, tree, exclude_extensions, exclude_folders, code_files,
                   oracle, requests, done_queue, file_evaluations, bar, main, overall>>

\* every wrapper has taken its first step: as_completed schedules all of them before
\* the coordinator first awaits, and the event loop runs what is scheduled in order,
\* before it handles the completion of any read or call
AllStarted == \A u \in Tasks : pc[u] # "created"

\* read_file_content returns; the prompt is built and the oracle call is made
ReadDone(t) ==
    /\ pc[t] = "reading"
    /\ AllStarted
    /\ requests' = [requests EXCEPT ![t] = read_file_content(EntryOf(code_files[t]))]
    /\ pc' = [pc EXCEPT ![t] = "calling"]
    /\ UNCHANGED <<folder_path, tree, exclude_extensions, exclude_folders, code_files,
                   oracle, sem, done_queue, file_evaluations, bar, main, overall>>

\* the oracle call ends; evaluate_file runs to its end, the wrapper leaves the
\* async with block and the finished task enters as_completed's queue
OracleDone(t) ==
    /\ pc[t] = "calling"
    /\ LET result == evaluate_file(code_files[t], folder_path, oracle[t])
       IN  /\ sem' = SemaphoreExit(sem, result)
           /\ done_queue' = Append(done_queue, result)
    /\ pc' = [pc EXCEPT ![t] = "done"]
    /\ UNCHANGED <<folder_path, tree, exclude_extensions, exclude_folders, code_files,
                   oracle, requests, file_evaluations, bar, main, overall>>

\* one turn of the loop over as_completed: evaluation = await task (an exception of
\* the task is raised here and leaves evaluate_folder), append, bar.update(1)
Collect ==
    /\ main = "collect"
    /\ bar < Len(code_files)
    /\ done_queue # <<>>
    /\ LET result == Head(done_queue)
       IN  IF result.raised
           THEN main' = "raised" /\ UNCHANGED <<file_evaluations, bar>>
           ELSE /\ file_evaluations' = CollectEvaluation(file_evaluations, result.value)
                /\ bar' = bar + 1
                /\ UNCHANGED main
    /\ done_queue' = Tail(done_queue)
    /\ UNCHANGED <<folder_path, tree, exclude_extensions, exclude_folders, code_files,
                   oracle, pc, requests, sem, overall>>

\* the loop has taken one result per task: return calculate_overall_score(...)
Return ==
    /\ main = "collect"
    /\ bar = Len(code_files)
    /\ overall' = calculate_overall_score(file_evaluations)
    /\ main' = "returned"
    /\ UNCHANGED <<folder_path, tree, exclude_extensions, exclude_folders, code_files,
                   oracle, pc, requests, sem, done_queue, file_evaluations, bar>>

(***************************************************************************)
(* Spec: runs of evaluate_folder over up to MaxFiles files                 *)
(***************************************************************************)
\* the most files in a run
MaxFiles == 6
\* up to this many files, every assignment of replies to the files is drawn
MaxMixedFiles == 3

RunFileName(k) == <<"f", DIGIT_CHARS[k + 1], ".", "p", "y">>
\* file k of a run: every other one lies in src/, every third one cannot be read
RunFile(k) ==
    [rel |-> IF k % 2 = 0 THEN <<N_SRC, RunFileName(k)>> ELSE <<RunFileName(k)>>,
     is_file |-> TRUE, size |-> 10, readable |-> k % 3 # 0, text |-> <<"x", "=", "1">>]
\* n files to evaluate among entries that get_code_files passes over
RunTree(n) ==
    << File(<< <<".","e","n","v">> >>, 10), Dir(<< N_SRC >>) >>
    \o [k \in 1..n |-> RunFile(k)]
    \o << Dir(<< N_NODE_MODULES >>), File(<< N_NODE_MODULES, <<"x",".","j","s">> >>, 10),
          File(<< <<"e","m","p","t","y",".","p","y">> >>, 0) >>

\* the replies of a run: a failed call, two replies to clamp, an unparseable one
RUN_RESPONSES ==
    << RaiseResponse(<<"t","i","m","e","o","u","t">>),
       ContentResponse(ObjectText(<<"1","5">>, <<"\"","x","\"">>)),
       ContentResponse(ObjectText(<<"-","3">>, <<>>)),
       ContentResponse(<<"n","o","t"," ","j","s","o","n">>) >>
RunResponseSet == { RUN_RESPONSES[i] : i \in 1..Len(RUN_RESPONSES) }

\* what the oracle does with the request of each of n tasks: up to MaxMixedFiles
\* files every assignment of replies, beyond that every call fails but the last
\* task's
Oracles(n) ==
    IF n <= MaxMixedFiles THEN [1..n -> RunResponseSet]
    ELSE { [t \in 1..n |-> IF t = n THEN RUN_RESPONSES[2] ELSE RUN_RESPONSES[1]] }

Init ==
    /\ folder_path = ROOT
    /\ exclude_extensions = {}
    /\ exclude_folders = {}
    /\ \E n \in 0..MaxFiles : tree = RunTree(n) /\ oracle \in Oracles(n)
    /\ code_files = <<>>
    /\ pc = <<>>
    /\ requests = <<>>
    /\ sem = 0
    /\ done_queue = <<>>
    /\ file_evaluations = <<>>
    /\ bar = 0
    /\ main = "start"
    /\ overall = NoValue

Next ==
    \/ Scan
    \/ \E t \in Tasks : Start(t)
    \/ \E t \in Tasks : Wake(t)
    \/ \E t \in Tasks : ReadDone(t)
    \/ \E t \in Tasks : OracleDone(t)
    \/ Collect
    \/ Return

Spec == Init /\ [][Next]_vars

\* the event loop runs every step that is ready, and every oracle call ends
FairSpec == Spec /\ WF_vars(Next)

(***************************************************************************)
(* Claims about evaluate_folder (Spec, FairSpec)                           *)
(***************************************************************************)
InFlight == { t \in Tasks : pc[t] = "calling" }
Holding == { t \in Tasks : pc[t] \in {"reading", "calling"} }

\* C1: at most 5 oracle calls are in flight at any instant, and a task is in its
\* oracle call only while it holds one of the 5 permits of the semaphore.
C1_AtMostFiveInFlight ==
    /\ Cardinality(InFlight) <= 5
    /\ Tasks # {} => /\ sem >= 0
                     /\ Cardinality(Holding) = 5 - sem
                     /\ InFlight \subseteq Holding

\* five calls are in flight while another task waits at the gate
C1_Witness ==
    /\ Cardinality(InFlight) = 5
    /\ \E t \in Tasks : pc[t] = "waiting"

RunReturned == main = "returned"
\* the name under which file i of code_files is reported
ReportedName(i) == PathStr(From(code_files[i], Len(folder_path) + 1))
EvaluationsOf(evals, i) == { k \in 1..Len(evals) : evals[k].filename = ReportedName(i) }
\* what the three replies of a run that are not failures evaluate to
ExpectedOf(response) ==
    CASE response = RUN_RESPONSES[2] -> [score |-> 10, reason |-> JStr(<<"x">>)]
      [] response = RUN_RESPONSES[3] -> [score |-> 1, reason |-> JStr(NO_REASON)]
      [] response = RUN_RESPONSES[4] ->
            [score |-> 5,
             reason |-> JStr(PARSE_FAIL_PREFIX \o <<"n","o","t"," ","j","s","o","n">>)]

\* C2: a failed oracle call gives its file score 5 and a reason holding the failure
\* message, never leaves evaluate_folder as an exception, and leaves every other
\* file with the evaluation of its own reply, whichever files fail.
C2_OracleFailureIsLocal ==
    /\ main # "raised"
    /\ RunReturned =>
         \A i \in 1..Len(code_files) :
            \E k \in 1..Len(file_evaluations) :
               LET e == file_evaluations[k]
               IN  /\ e.filename = ReportedName(i)
                   /\ IF oracle[i].kind = "raise"
                      THEN /\ e.score = 5
                           /\ e.reason.t = "str"
                           /\ Contains(e.reason.s, oracle[i].msg)
                      ELSE /\ e.score = ExpectedOf(oracle[i]).score
                           /\ e.reason = ExpectedOf(oracle[i]).reason

\* a run returned in which the first call failed and the second file got its own 10
C2_Witness ==
    /\ RunReturned
    /\ Len(code_files) >= 2
    /\ oracle[1].kind = "raise"
    /\ oracle[2] = RUN_RESPONSES[2]
    /\ \E k \in 1..Len(file_evaluations) :
          /\ file_evaluations[k].filename = ReportedName(2)
          /\ file_evaluations[k].score = 10

ScoreInRange(x) == x.score \in 1..10

\* C5: on every path every FileEvaluation, collected or reported, has an integer
\* score in [1,10], and so has the OverallEvaluation.
C5_ScoresInRange ==
    /\ \A k \in 1..Len(file_evaluations) : ScoreInRange(file_evaluations[k])
    /\ \A k \in 1..Len(done_queue) :
          ~done_queue[k].raised => ScoreInRange(done_queue[k].value)
    /\ overall # NoValue =>
          /\ ScoreInRange(overall)
          /\ \A k \in 1..Len(overall.file_evaluations) :
                ScoreInRange(overall.file_evaluations[k])

\* a run returned that took a failed call, a score to clamp, an unparseable reply
\* and a file that could not be read
C5_Witness ==
    /\ RunReturned
    /\ oracle = <<RUN_RESPONSES[1], RUN_RESPONSES[2], RUN_RESPONSES[4]>>
    /\ StartsWith(requests[3], READ_ERROR_PREFIX)
    /\ Len(overall.file_evaluations) = 3

\* C6: the report of a returned run holds exactly one FileEvaluation per file that
\* get_code_files returned, and total_files is their number; with no file the report
\* has total_files 0 and no evaluation.
C6_OneEvaluationPerFile ==
    RunReturned =>
        /\ overall.total_files = Len(overall.file_evaluations)
        /\ overall.total_files = Len(code_files)
        /\ \A i \in 1..Len(code_files) :
              Cardinality(EvaluationsOf(overall.file_evaluations, i)) = 1
        /\ code_files = <<>> => overall.total_files = 0 /\ overall.file_evaluations = <<>>

\* a run over more files than permits returned, with failed calls among them
C6_Witness ==
    /\ RunReturned
    /\ Len(code_files) > 5
    /\ \E i \in 1..Len(code_files) : oracle[i].kind = "raise"
    /\ overall.total_files = Len(code_files)

\* C10: every run of evaluate_folder ends by returning its OverallEvaluation, with
\* every task finished and every permit back in the semaphore; the
\* OverallEvaluation, once returned, is not replaced.
C10_RunCompletes ==
    /\ <>[](/\ RunReturned
            /\ overall # NoValue
            /\ code_files # <<>> => sem = 5 /\ \A t \in Tasks : pc[t] = "done")
    /\ [][overall # NoValue => overall' = overall]_vars

\* a run over more files than permits, all calls but one failing, has returned and
\* all five permits are back
C10_Witness ==
    /\ RunReturned
    /\ Len(code_files) > 5
    /\ Cardinality({ i \in 1..Len(code_files) : oracle[i].kind = "raise" }) >= 5
    /\ sem = 5
    /\ \A t \in Tasks : pc[t] = "done"

\* the evaluations of the finished tasks not yet taken by the loop, oldest first
Pending == [k \in 1..Len(done_queue) |-> done_queue[k].value]
\* the evaluations of the tasks that have completed, in the order of completion
CompletionOrder == file_evaluations \o Pending
Completes(t) == pc[t] = "calling" /\ pc'[t] = "done"

\* C11: results are collected in completion order: a completing task puts its
\* evaluation at the end of the completion order, the loop moves the oldest
\* uncollected one to the end of file_evaluations and nothing else changes either,
\* so the k-th element of file_evaluations is the evaluation of the k-th task to
\* complete; the progress counter starts at 0, grows by exactly one with each
\* collected evaluation, always equals their number, and equals the number of
\* files when the run has returned.
C11_CollectedInCompletionOrder ==
    /\ bar = 0
    /\ [](bar = Len(file_evaluations))
    /\ [](RunReturned => bar = Len(code_files))
    /\ [][ /\ \A t \in Tasks : Completes(t) =>
                /\ Len(CompletionOrder') = Len(CompletionOrder) + 1
                /\ SubSeq(CompletionOrder', 1, Len(CompletionOrder)) = CompletionOrder
                /\ CompletionOrder'[Len(CompletionOrder')].filename = ReportedName(t)
           /\ (\A t \in Tasks : ~Completes(t)) => CompletionOrder' = CompletionOrder
           /\ file_evaluations' # file_evaluations =>
                /\ done_queue # <<>>
                /\ file_evaluations' = Append(file_evaluations, Head(done_queue).value)
                /\ bar' = bar + 1
           /\ bar' # bar => file_evaluations' # file_evaluations ]_vars

\* a run returned whose first collected evaluation is that of the second file found,
\* the first file's coming later, with the counter at the number of files
C11_Witness ==
    /\ RunReturned
    /\ Len(code_files) >= 2
    /\ bar = Len(code_files)
    /\ file_evaluations[1].filename = ReportedName(2)
    /\ \E k \in 2..Len(file_evaluations) : file_evaluations[k].filename = ReportedName(1)

====
